---- MODULE Spec2Model ----
(***************************************************************************)
(* Model of src/resize_pic_py/get_dpi_pic.py: the size catalogs and the    *)
(* mm -> px conversion, the decoder cascade open_image_any with its two    *)
(* external rasterizers and their temporary raster files, the auto-crop    *)
(* and alpha-flattening helpers, and the orchestrator resize_to_a_size.     *)
(*                                                                         *)
(* Numbers.  Python computes mm / 25.4 * dpi and im.width * ratio in       *)
(* double precision and rounds with round().  The model keeps the exact    *)
(* rational n/d; PyRound(n, d) is the set of integers round() can return:  *)
(* the nearest integer, and both neighbours when n/d is exactly half-way   *)
(* (the double product lands on either side of the tie there).             *)
(*                                                                         *)
(* Images.  A PIL image is a record [mode, trns, w, h, px, broken, orient, *)
(* temp]: mode is the colour mode, trns is '"transparency" in im.info',    *)
(* px maps each pixel <<x, y>> to "T" (alpha 0, black underneath), "W"     *)
(* (opaque white) or "B" (opaque black), broken says that loading the      *)
(* pixels raises (Image.open reads the header only), orient is the EXIF    *)
(* orientation and temp the _temp_raster_path attribute.                   *)
(***************************************************************************)
EXTENDS Integers, Sequences, FiniteSets, TLC

\* One call of resize_to_a_size: pc is the position in it, args its
\* arguments, env what the file system, tools and libraries did, target the
\* (target_w, target_h) pair, decoded the value open_image_any returned, im,
\* temp_raster and out the locals of those names, saved the canvas handed to
\* out.save, tempfiles the temporary directory, result the record returned
\* and raised the exception raised.  call and ret are the arguments and the
\* value of a helper function applied on its own.
VARIABLES pc, args, env, target, decoded, im, temp_raster, out, saved,
          tempfiles, result, raised, call, ret

vars == <<pc, args, env, target, decoded, im, temp_raster, out, saved,
          tempfiles, result, raised, call, ret>>

pipeVars == <<pc, args, env, target, decoded, im, temp_raster, out, saved,
              tempfiles, result, raised>>

\* ---------------------------------------------------------------- bounds
MaxDpi == 3
MaxDim == 5
MaxW == 3
MaxH == 3

\* Python's None, once for each kind of value the model compares it with
None == "None"
NoImage == [mode |-> "None"]
NoExc == [type |-> "None", msg |-> ""]
NoBBox == <<>>
NoRecord == [error |-> "None"]
NoCanvas == [mode |-> "None"]
NoArgs == [src_ext |-> "None"]
NoEnv == [exists |-> "None"]
NoTarget == <<0, 0>>
NoCall == [fn |-> "None"]

\* ------------------------------------------------------- size catalogs
A_SIZES_MM ==
    [k \in {"A1", "A2", "A3", "A4"} |->
        CASE k = "A1" -> <<594, 841>>
          [] k = "A2" -> <<420, 594>>
          [] k = "A3" -> <<297, 420>>
          [] k = "A4" -> <<210, 297>>]

TWO_PER_THREE_SIZES_MM ==
    [k \in {"24X36", "20X30", "16X24", "12X18", "8X12"} |->
        CASE k = "24X36" -> <<610, 910>>
          [] k = "20X30" -> <<510, 760>>
          [] k = "16X24" -> <<410, 610>>
          [] k = "12X18" -> <<300, 460>>
          [] k = "8X12" -> <<200, 300>>]

FOUR_PER_FIVE_SIZES_MM ==
    [k \in {"24X30", "20X25", "16X20", "12X15", "8X10"} |->
        CASE k = "24X30" -> <<600, 760>>
          [] k = "20X25" -> <<510, 630>>
          [] k = "16X20" -> <<400, 500>>
          [] k = "12X15" -> <<300, 380>>
          [] k = "8X10" -> <<200, 250>>]

THREE_PER_FOUR_SIZES_MM ==
    [k \in {"18X24", "15X20", "12X16", "9X12"} |->
        CASE k = "18X24" -> <<460, 610>>
          [] k = "15X20" -> <<380, 510>>
          [] k = "12X16" -> <<300, 400>>
          [] k = "9X12" -> <<230, 300>>]

ELEVEN_X_FOURTEEN_SIZES_MM ==
    [k \in {"11X14"} |-> <<280, 360>>]

CatalogNames ==
    {"A_SIZES_MM", "TWO_PER_THREE_SIZES_MM", "FOUR_PER_FIVE_SIZES_MM",
     "THREE_PER_FOUR_SIZES_MM", "ELEVEN_X_FOURTEEN_SIZES_MM"}

\* The sizes_mm argument, by the name resize_to_a_size reports for it.
Catalog(name) ==
    CASE name = "A_SIZES_MM" -> A_SIZES_MM
      [] name = "TWO_PER_THREE_SIZES_MM" -> TWO_PER_THREE_SIZES_MM
      [] name = "FOUR_PER_FIVE_SIZES_MM" -> FOUR_PER_FIVE_SIZES_MM
      [] name = "THREE_PER_FOUR_SIZES_MM" -> THREE_PER_FOUR_SIZES_MM
      [] name = "ELEVEN_X_FOURTEEN_SIZES_MM" -> ELEVEN_X_FOURTEEN_SIZES_MM

AllKeys == UNION {DOMAIN Catalog(n) : n \in CatalogNames}

\* str.upper() and str.lower() on the strings the model passes in.
StrUpper(s) ==
    CASE s = "a4" -> "A4"
      [] s = "a1" -> "A1"
      [] s = "8x10" -> "8X10"
      [] s = "24x36" -> "24X36"
      [] s = "11x14" -> "11X14"
      [] s = "9x12" -> "9X12"
      [] s = "b5" -> "B5"
      [] OTHER -> s

StrLower(s) ==
    CASE s = "H" -> "h"
      [] s = "Horizontal" -> "horizontal"
      [] s = "LANDSCAPE" -> "landscape"
      [] s = "Vertical" -> "vertical"
      [] s = "V" -> "v"
      [] OTHER -> s

\* ------------------------------------------------------ mm -> px helpers
\* int(round(n / d)) for n >= 0, d > 0.
PyRound(n, d) ==
    LET q == n \div d
        r == n % d
    IN  IF 2 * r < d THEN {q}
        ELSE IF 2 * r > d THEN {q + 1}
        ELSE {q, q + 1}

\* mm / 25.4 * dpi = (mm * dpi * 10) / 254
mm_to_px(mm, dpi) == PyRound(mm * dpi * 10, 254)

Exc(type, msg) == [type |-> type, msg |-> msg]

UnknownSizeKey == Exc("ValueError", "Unknown size_key")

paper_size_px_noswap(size_key, dpi, landscape, sizes_mm) ==
    LET key == StrUpper(size_key)
    IN  IF key \notin DOMAIN sizes_mm THEN {[px |-> NoTarget, exc |-> UnknownSizeKey]}
        ELSE {[px |-> t, exc |-> NoExc] :
                t \in mm_to_px(sizes_mm[key][1], dpi) \X mm_to_px(sizes_mm[key][2], dpi)}

\* The outcomes of the call: px is the pair returned, exc the exception raised.
paper_size_px(size_key, dpi, landscape, sizes_mm) ==
    LET key == StrUpper(size_key)
    IN  IF key \notin DOMAIN sizes_mm THEN {[px |-> NoTarget, exc |-> UnknownSizeKey]}
        ELSE LET swap == StrLower(landscape) \in {"horizontal", "landscape", "h"}
                 w_mm == IF swap THEN sizes_mm[key][2] ELSE sizes_mm[key][1]
                 h_mm == IF swap THEN sizes_mm[key][1] ELSE sizes_mm[key][2]
             IN  {[px |-> t, exc |-> NoExc] :
                     t \in mm_to_px(w_mm, dpi) \X mm_to_px(h_mm, dpi)}

\* ------------------------------------------------------ fit-mode geometry
Max(a, b) == IF a >= b THEN a ELSE b

FitRatioMax(img_w, img_h, target_w, target_h) ==
    IF target_w * img_h >= target_h * img_w
    THEN <<target_w, img_w>>
    ELSE <<target_h, img_h>>

\* ratio = min(target_w / im.width, target_h / im.height), as <<num, den>>
FitRatio(img_w, img_h, target_w, target_h) ==
    IF target_w * img_h <= target_h * img_w
    THEN <<target_w, img_w>>
    ELSE <<target_h, img_h>>

\* (new_w, new_h): max(1, int(round(im.width * ratio))) and the same for height
FitSize(img_w, img_h, target_w, target_h) ==
    LET ratio == FitRatio(img_w, img_h, target_w, target_h)
    IN  {<<Max(1, a), Max(1, b)>> :
            a \in PyRound(img_w * ratio[1], ratio[2]),
            b \in PyRound(img_h * ratio[1], ratio[2])}

\* x = (target_w - im_copy.width) // 2 and y likewise; // floors
FitOffset(new_size, target_w, target_h) ==
    <<(target_w - new_size[1]) \div 2, (target_h - new_size[2]) \div 2>>

\* ---------------------------------------------------------- extensions
RAW_EXTS == {".cr2", ".cr3", ".nef", ".arw", ".dng", ".rw2", ".orf", ".raf", ".pef"}
VECTOR_EXTS == {".svg"}
PS_PDF_EXTS == {".eps", ".ps", ".ai", ".pdf"}

\* ------------------------------------------------------------- images
Modes == {"L", "LA", "RGB", "RGBA", "P"}
AlphaModes == {"LA", "RGBA", "P"}

Coords(w, h) == (0 .. w - 1) \X (0 .. h - 1)

\* Pixel kinds a mode can hold: only modes with an alpha band, or a palette
\* with a transparent index, hold "T".
PixelsOf(mode) == IF mode \in AlphaModes THEN {"T", "W", "B"} ELSE {"W", "B"}

\* A freshly opened image; mode "P" is the indexed-with-transparency case,
\* the only one whose info carries "transparency".
NewImage(mode, w, h, px, broken, orient, temp) ==
    [mode |-> mode, trns |-> (mode = "P"), w |-> w, h |-> h, px |-> px,
     broken |-> broken, orient |-> orient, temp |-> temp]

\* Image.convert(mode): a new image object (no _temp_raster_path).  To RGBA
\* the transparent palette index becomes alpha and info loses "transparency";
\* to RGB the pixels lose alpha and show the colour underneath, and a
\* palette's transparent index stays in info as a colour.
convert(i, mode) ==
    IF mode = "RGBA"
    THEN [i EXCEPT !.mode = "RGBA", !.trns = FALSE, !.temp = None]
    ELSE [i EXCEPT !.mode = "RGB", !.temp = None,
                   !.px = [c \in DOMAIN i.px |->
                              IF i.px[c] = "T" THEN "B" ELSE i.px[c]]]

\* Image.getbbox() of the pixels in S: (left, upper, right, lower), right and
\* lower exclusive; NoBBox (None) when S is empty.
BBoxOf(S) ==
    IF S = {} THEN NoBBox
    ELSE LET xs == {c[1] : c \in S}
             ys == {c[2] : c \in S}
             lo(T) == CHOOSE m \in T : \A n \in T : m <= n
             hi(T) == CHOOSE m \in T : \A n \in T : m >= n
         IN  <<lo(xs), lo(ys), hi(xs) + 1, hi(ys) + 1>>

\* alpha.getbbox(): the pixels whose alpha is not zero
AlphaBBox(i) == BBoxOf({c \in DOMAIN i.px : i.px[c] # "T"})

\* ImageChops.difference(im, bg_img).getbbox(): the pixels that differ from bg
DiffBBox(i, bg) == BBoxOf({c \in DOMAIN i.px : i.px[c] # bg})

\* Image.crop(bbox): a new image, info copied
crop(i, bbox) ==
    LET nw == bbox[3] - bbox[1]
        nh == bbox[4] - bbox[2]
    IN  [i EXCEPT !.w = nw, !.h = nh, !.temp = None,
                  !.px = [c \in Coords(nw, nh) |->
                             i.px[<<c[1] + bbox[1], c[2] + bbox[2]>>]]]

\* lines 109-117, for an image whose pixels load
autocrop_white(i, bg) ==
    LET rgb == IF i.mode # "RGB" THEN convert(i, "RGB") ELSE i
        bbox == DiffBBox(rgb, bg)
    IN  IF bbox # NoBBox THEN crop(rgb, bbox) ELSE rgb

\* A broken image raises when its pixels are first loaded, in both try
\* blocks; the second except turns that into "return im".
autocrop_auto(i) ==
    IF i.broken THEN i
    ELSE LET rgba == convert(i, "RGBA")
             bbox == AlphaBBox(rgba)
         IN  IF bbox # NoBBox THEN crop(rgba, bbox)
             ELSE autocrop_white(i, "W")

flatten_alpha_to_bg_keep(i, bg_color) == i

\* Image.new("RGB", im.size, bg_color) with im pasted through its alpha band
flatten_alpha_to_bg(i, bg_color) ==
    IF i.mode # "RGBA" THEN i
    ELSE [mode |-> "RGB", trns |-> FALSE, w |-> i.w, h |-> i.h,
          px |-> [c \in DOMAIN i.px |->
                     IF i.px[c] = "T" THEN bg_color ELSE i.px[c]],
          broken |-> FALSE, orient |-> 1, temp |-> None]

\* ImageOps.exif_transpose: orientation 1 gives a copy, any other (6 here,
\* a quarter turn) a transposed copy with the orientation tag removed.
exif_transpose(i) ==
    IF i.orient = 1 THEN [i EXCEPT !.temp = None]
    ELSE [i EXCEPT !.w = i.h, !.h = i.w, !.orient = 1, !.temp = None,
                   !.px = [c \in Coords(i.h, i.w) |-> i.px[<<c[2], c[1]>>]]]

\* has_alpha = im.mode in ("RGBA", "LA") or ("transparency" in im.info)
HasAlpha(i) == i.mode \in {"RGBA", "LA"} \/ i.trns

\* ------------------------------------------------ exceptions and records
FileNotFound == Exc("FileNotFoundError", "File not found")
GsNotFound == Exc("RuntimeError", "Ghostscript not found in PATH")
GsFailed == Exc("RuntimeError", "Ghostscript failed to render this file")
InkscapeNotFound == Exc("RuntimeError", "Inkscape not found in PATH")
InkscapeFailed == Exc("RuntimeError", "Inkscape failed to render this SVG")
RawDecodeFailed == Exc("ValueError", "RAW file detected but could not decode")
SvgFailed == Exc("ValueError", "SVG file detected but cannot be rasterized")
Unsupported == Exc("ValueError", "Unsupported or unreadable image")
\* raised by the libraries, not by this file
LaunchFault == Exc("OSError", "subprocess.run could not start the tool")
BadRaster == Exc("UnidentifiedImageError", "cannot identify image file")
LoadFault == Exc("OSError", "image file is truncated")
SaveFault == Exc("OSError", "cannot write file")

\* What a function call does: returns ret, or raises exc; files is the
\* temporary directory afterwards.
Returns(v, files) == [ret |-> v, exc |-> NoExc, files |-> files]
Raises(e, files) == [ret |-> NoImage, exc |-> e, files |-> files]

\* ------------------------------------------------ external rasterizers
\* Outcomes of one external tool: not found by the lookup; found but
\* subprocess.run fails to launch it; non-zero exit; zero exit but
\* Image.open cannot read the produced file; zero exit and a readable file.
ToolOutcomes == {"missing", "launch_fault", "nonzero", "bad_raster", "ok"}

\* tempfile.NamedTemporaryFile(suffix=".png", delete=False).name
TmpPath == "tmp.png"

\* Shared body of the two rasterizers, which differ in tool and messages.
Rasterize(tool, exists, img, files, notFound, failed) ==
    IF tool = "missing" THEN Raises(notFound, files)
    ELSE IF ~exists THEN Raises(FileNotFound, files)
    ELSE LET created == files \cup {TmpPath}
         IN  CASE tool = "launch_fault" -> Raises(LaunchFault, created)
               [] tool = "nonzero" -> Raises(failed, created \ {TmpPath})
               [] tool = "bad_raster" -> Raises(BadRaster, created)
               [] tool = "ok" -> Returns([img EXCEPT !.temp = TmpPath], created)

_rasterize_with_ghostscript_none(e, img, files) ==
    IF e.gs = "missing" THEN Returns(NoImage, files)
    ELSE Rasterize(e.gs, e.exists, img, files, GsNotFound, GsFailed)

_rasterize_with_ghostscript(e, img, files) ==
    Rasterize(e.gs, e.exists, img, files, GsNotFound, GsFailed)

_rasterize_svg_with_inkscape(e, img, files) ==
    Rasterize(e.inkscape, e.exists, img, files, InkscapeNotFound, InkscapeFailed)

\* ------------------------------------------------------ decoder cascade
open_image_any_unreadable_none(e, ext, skip_gs_files, skip_svg_files, img, files) ==
    IF ~e.exists THEN Raises(FileNotFound, files)
    ELSE IF ext \in PS_PDF_EXTS
    THEN LET r == _rasterize_with_ghostscript(e, img, files)
         IN  IF r.exc # NoExc /\ skip_gs_files THEN Returns(NoImage, r.files) ELSE r
    ELSE IF e.native = "ok" THEN Returns(img, files)
    ELSE IF ext \in RAW_EXTS
    THEN IF e.raw = "ok" THEN Returns(img, files) ELSE Raises(RawDecodeFailed, files)
    ELSE IF ext \in VECTOR_EXTS
    THEN IF e.cairo = "ok" THEN Returns(img, files)
         ELSE LET r == _rasterize_svg_with_inkscape(e, img, files)
              IN  IF r.exc = NoExc THEN r
                  ELSE IF skip_svg_files THEN Returns(NoImage, r.files)
                  ELSE Raises(SvgFailed, r.files)
    ELSE Returns(NoImage, files)

open_image_any_raw_fallthrough(e, ext, skip_gs_files, skip_svg_files, img, files) ==
    IF ~e.exists THEN Raises(FileNotFound, files)
    ELSE IF ext \in PS_PDF_EXTS
    THEN LET r == _rasterize_with_ghostscript(e, img, files)
         IN  IF r.exc # NoExc /\ skip_gs_files THEN Returns(NoImage, r.files) ELSE r
    ELSE IF e.native = "ok" THEN Returns(img, files)
    ELSE IF ext \in RAW_EXTS /\ e.raw = "ok" THEN Returns(img, files)
    ELSE IF ext \in VECTOR_EXTS
    THEN IF e.cairo = "ok" THEN Returns(img, files)
         ELSE LET r == _rasterize_svg_with_inkscape(e, img, files)
              IN  IF r.exc = NoExc THEN r
                  ELSE IF skip_svg_files THEN Returns(NoImage, r.files)
                  ELSE Raises(SvgFailed, r.files)
    ELSE Raises(Unsupported, files)

\* e: what the file system, the tools and the decoding libraries do during
\* this call; img: the image the decoder that succeeds produces.
open_image_any(e, ext, skip_gs_files, skip_svg_files, img, files) ==
    IF ~e.exists THEN Raises(FileNotFound, files)
    ELSE IF ext \in PS_PDF_EXTS
    THEN LET r == _rasterize_with_ghostscript(e, img, files)
         IN  IF r.exc # NoExc /\ skip_gs_files THEN Returns(NoImage, r.files) ELSE r
    ELSE IF e.native = "ok" THEN Returns(img, files)
    ELSE IF ext \in RAW_EXTS
    THEN IF e.raw = "ok" THEN Returns(img, files) ELSE Raises(RawDecodeFailed, files)
    ELSE IF ext \in VECTOR_EXTS
    THEN IF e.cairo = "ok" THEN Returns(img, files)
         ELSE LET r == _rasterize_svg_with_inkscape(e, img, files)
              IN  IF r.exc = NoExc THEN r
                  ELSE IF skip_svg_files THEN Returns(NoImage, r.files)
                  ELSE Raises(SvgFailed, r.files)
    ELSE Raises(Unsupported, files)

\* ---------------------------------------------------- inputs of a call
DefaultDpi == 300

SrcExts == PS_PDF_EXTS \cup RAW_EXTS \cup VECTOR_EXTS \cup {".png", ".xyz"}

Args ==
    [src_ext : SrcExts,
     out_path : {"out.png", "out.jpg"},
     sizes_mm : {"A_SIZES_MM"},
     size_key : {"a4", "b5"},
     dpi : {DefaultDpi},
     mode : {"fit", "fill", "stretch"},
     landscape : {"vertical"},
     bg_color : {"W"},
     skip_gs_files : BOOLEAN,
     skip_svg_files : BOOLEAN,
     autocrop : BOOLEAN,
     flatten_alpha : BOOLEAN]

\* out_path.lower().endswith(".png")
IsPng(out_path) == out_path \in {"out.png"}

NA == "n/a"

\* The environment of one call, with n/a for what the cascade never
\* consults on this extension.
Envs(ext) ==
    {e \in [exists : BOOLEAN,
            gs : ToolOutcomes \cup {NA},
            native : {"ok", "fail", NA},
            raw : {"ok", "fail", NA},
            cairo : {"ok", "fail", NA},
            inkscape : ToolOutcomes \cup {NA}] :
        /\ (e.gs # NA) <=> (e.exists /\ ext \in PS_PDF_EXTS)
        /\ (e.native # NA) <=> (e.exists /\ ext \notin PS_PDF_EXTS)
        /\ (e.raw # NA) <=> (e.native = "fail" /\ ext \in RAW_EXTS)
        /\ (e.cairo # NA) <=> (e.native = "fail" /\ ext \in VECTOR_EXTS)
        /\ (e.inkscape # NA) <=> (e.cairo = "fail")}

\* The decoder that produces the image under e, "none" when none does.
Decoder(e) ==
    CASE e.gs = "ok" -> "gs"
      [] e.native = "ok" -> "native"
      [] e.raw = "ok" -> "raw"
      [] e.cairo = "ok" -> "cairo"
      [] e.inkscape = "ok" -> "inkscape"
      [] OTHER -> "none"

\* Images of one pixel kind: a single row or a single column of the largest
\* size.  A broken image never gets its orientation applied, so it is given
\* orientation 1 only.
UniformImages(modes, orients) ==
    {i \in {NewImage(m, sz[1], sz[2], [c \in Coords(sz[1], sz[2]) |-> k], b, o, None) :
                m \in modes, sz \in {<<MaxW, 1>>, <<1, MaxH>>},
                k \in {"T", "W", "B"}, b \in BOOLEAN, o \in orients} :
        i.broken => i.orient = 1}

\* What each decoder can hand back: Ghostscript writes with the pngalpha
\* device (RGBA), rawpy gives an RGB array, the others any mode; only a
\* file decoded by Pillow itself carries an EXIF orientation.
DecodedImages(decoder) ==
    LET ok(S) == {i \in S : i.px[<<0, 0>>] \in PixelsOf(i.mode)}
    IN  CASE decoder = "gs" -> ok(UniformImages({"RGBA"}, {1}))
          [] decoder = "raw" ->
                {i \in ok(UniformImages({"RGB"}, {1})) : ~i.broken}
          [] decoder = "native" -> ok(UniformImages(Modes, {1, 6}))
          [] decoder \in {"cairo", "inkscape"} -> ok(UniformImages(Modes, {1}))
          [] OTHER -> {NoImage}

\* ------------------------------------------------------ resize_to_a_size
ErrorRecord(kind, ext) == [error |-> kind, src_path |-> ext]

SuccessRecord(a, t) ==
    [size_dict |-> a.sizes_mm, size_key |-> StrUpper(a.size_key), dpi |-> a.dpi,
     mode |-> a.mode, landscape |-> a.landscape, target_px |-> t,
     output |-> a.out_path, src_path |-> a.src_ext]

\* lines 347-352: the arguments arrive and the target canvas is resolved
Call ==
    /\ pc = "idle"
    /\ \E a \in Args :
       \E t \in paper_size_px(a.size_key, a.dpi, a.landscape, Catalog(a.sizes_mm)) :
          /\ args' = a
          /\ raised' = t.exc
          /\ target' = t.px
          /\ pc' = IF t.exc # NoExc THEN "raised" ELSE "open"
    /\ UNCHANGED <<env, decoded, im, temp_raster, out, saved, tempfiles, result, call, ret>>

\* lines 354-360: open_image_any; an exception leaves the function here
Open ==
    /\ pc = "open"
    /\ \E e \in Envs(args.src_ext) :
       \E img \in DecodedImages(Decoder(e)) :
          LET r == open_image_any(e, args.src_ext, args.skip_gs_files,
                                  args.skip_svg_files, img, tempfiles)
          IN  /\ env' = e
              /\ tempfiles' = r.files
              /\ IF r.exc # NoExc
                 THEN /\ raised' = r.exc
                      /\ pc' = "raised"
                      /\ im' = im
                      /\ decoded' = decoded
                 ELSE /\ raised' = raised
                      /\ im' = r.ret
                      /\ decoded' = r.ret
                      /\ pc' = IF r.ret = NoImage THEN "sentinel" ELSE "try"
    /\ UNCHANGED <<args, target, temp_raster, out, saved, result, call, ret>>

\* lines 362-380: the sentinel becomes an error record
ReturnError ==
    /\ pc = "sentinel"
    /\ result' = IF args.src_ext \in PS_PDF_EXTS
                 THEN ErrorRecord("GS_REQUIRED", args.src_ext)
                 ELSE IF args.src_ext \in VECTOR_EXTS
                 THEN ErrorRecord("SVG_TOOL_REQUIRED", args.src_ext)
                 ELSE ErrorRecord("UNREADABLE", args.src_ext)
    /\ pc' = "returned"
    /\ UNCHANGED <<args, env, target, decoded, im, temp_raster, out, saved,
                   tempfiles, raised, call, ret>>

\* lines 383-399: EXIF orientation, auto-crop, flatten.  exif_transpose and
\* autocrop_auto swallow the load failure of a broken image; im.convert in
\* the flatten step does not.
Preprocess ==
    /\ pc = "try"
    /\ temp_raster' = im.temp
    /\ LET im1 == IF im.broken THEN im ELSE exif_transpose(im)
           im2 == IF args.autocrop THEN autocrop_auto(im1) ELSE im1
       IN  IF args.flatten_alpha /\ im2.broken
           THEN /\ raised' = LoadFault
                /\ pc' = "finally"
                /\ im' = im2
           ELSE /\ raised' = raised
                /\ pc' = "composite"
                /\ im' = IF args.flatten_alpha
                         THEN flatten_alpha_to_bg(convert(im2, "RGBA"), args.bg_color)
                         ELSE im2
    /\ UNCHANGED <<args, env, target, decoded, out, saved, tempfiles, result,
                   call, ret>>

\* Image.resize and ImageOps.fit keep mode and info; the fit branch pastes
\* the scaled copy at box = (x, y, x + new_w, y + new_h) on a new canvas.
Canvas(mode, trns, t, size, offset) ==
    [mode |-> mode, trns |-> trns, w |-> t[1], h |-> t[2],
     content |-> size, offset |-> offset]

\* lines 401-420: placement on the target canvas
Composite ==
    /\ pc = "composite"
    /\ IF im.broken
       THEN /\ raised' = LoadFault
            /\ pc' = "finally"
            /\ out' = out
       ELSE /\ raised' = raised
            /\ pc' = "save"
            /\ IF args.mode \in {"stretch", "fill"}
               THEN out' = Canvas(im.mode, im.trns, target, target, <<0, 0>>)
               ELSE \E ns \in FitSize(im.w, im.h, target[1], target[2]) :
                       out' = Canvas(IF HasAlpha(im) /\ IsPng(args.out_path)
                                     THEN "RGBA" ELSE "RGB",
                                     FALSE, target, ns,
                                     FitOffset(ns, target[1], target[2]))
    /\ UNCHANGED <<args, env, target, decoded, im, temp_raster, saved, tempfiles,
                   result, call, ret>>

\* line 423-424: the canvas handed to out.save
ForSave(o, out_path) ==
    IF ~IsPng(out_path) /\ o.mode = "RGBA" THEN [o EXCEPT !.mode = "RGB"] ELSE o

\* lines 423-444: save, then build the success record
Save ==
    /\ pc = "save"
    /\ saved' = ForSave(out, args.out_path)
    /\ pc' = "finally"
    /\ \E ok \in BOOLEAN :
          IF ok
          THEN /\ result' = SuccessRecord(args, target)
               /\ raised' = raised
          ELSE /\ result' = result
               /\ raised' = SaveFault
    /\ UNCHANGED <<args, env, target, decoded, im, temp_raster, out, tempfiles,
                   call, ret>>

Finally_return ==
    /\ pc = "finally"
    /\ tempfiles' = IF temp_raster # None THEN tempfiles \ {temp_raster}
                    ELSE tempfiles
    /\ pc' = "returned"
    /\ UNCHANGED <<args, env, target, decoded, im, temp_raster, out, saved,
                   result, raised, call, ret>>

\* lines 446-456: close the image, remove the temporary raster, then
\* return the record or let the pending exception go on
Finally ==
    /\ pc = "finally"
    /\ tempfiles' = IF temp_raster # None THEN tempfiles \ {temp_raster}
                    ELSE tempfiles
    /\ pc' = IF raised # NoExc THEN "raised" ELSE "returned"
    /\ UNCHANGED <<args, env, target, decoded, im, temp_raster, out, saved,
                   result, raised, call, ret>>

Init ==
    /\ pc = "idle"
    /\ args = NoArgs
    /\ env = NoEnv
    /\ target = NoTarget
    /\ decoded = NoImage
    /\ im = NoImage
    /\ temp_raster = None
    /\ out = NoCanvas
    /\ saved = NoCanvas
    /\ tempfiles = {}
    /\ result = NoRecord
    /\ raised = NoExc
    /\ call = NoCall
    /\ ret = NoCall

Next ==
    \/ Call
    \/ Open
    \/ ReturnError
    \/ Preprocess
    \/ Composite
    \/ Save
    \/ Finally

Spec == Init /\ [][Next]_vars

\* ------------------------------------------ paper_size_px on its own
SizeKeyInputs == AllKeys \cup {"a4", "8x10", "9x12", "b5", "A5"}

LandscapeInputs ==
    {"vertical", "horizontal", "landscape", "h", "H", "LANDSCAPE", "V", "portrait"}

DpiInputs == (1 .. MaxDpi) \cup {72, 150, DefaultDpi}

SizeCalls ==
    [fn : {"paper_size_px"}, size_key : SizeKeyInputs, dpi : DpiInputs,
     landscape : LandscapeInputs, sizes_mm : CatalogNames]

InitPure(calls) ==
    /\ pc = "pure"
    /\ args = NoArgs
    /\ env = NoEnv
    /\ target = NoTarget
    /\ decoded = NoImage
    /\ im = NoImage
    /\ temp_raster = None
    /\ out = NoCanvas
    /\ saved = NoCanvas
    /\ tempfiles = {}
    /\ result = NoRecord
    /\ raised = NoExc
    /\ call \in calls
    /\ ret = NoCall

InitSize == InitPure(SizeCalls)

PaperSizePx ==
    /\ call.fn = "paper_size_px"
    /\ ret = NoCall
    /\ ret' \in paper_size_px(call.size_key, call.dpi, call.landscape,
                              Catalog(call.sizes_mm))
    /\ UNCHANGED <<pipeVars, call>>

NextSize == PaperSizePx

SpecSize == InitSize /\ [][NextSize]_vars

\* ------------------------------------- fit-mode placement on its own
FitCalls ==
    [fn : {"fit"}, img_w : 1 .. MaxDim, img_h : 1 .. MaxDim,
     target_w : 1 .. MaxDim, target_h : 1 .. MaxDim]

InitFit == InitPure(FitCalls)

\* lines 407-420 of resize_to_a_size, for an opaque image
FitPlace ==
    /\ call.fn = "fit"
    /\ ret = NoCall
    /\ \E ns \in FitSize(call.img_w, call.img_h, call.target_w, call.target_h) :
          ret' = Canvas("RGB", FALSE, <<call.target_w, call.target_h>>, ns,
                        FitOffset(ns, call.target_w, call.target_h))
    /\ UNCHANGED <<pipeVars, call>>

NextFit == FitPlace

SpecFit == InitFit /\ [][NextFit]_vars

\* ------------------------------------- the auto-crop helpers on their own
\* Every unbroken, upright image of the given modes within the bounds.
PixelImages(modes) ==
    UNION {{NewImage(m, w, h, px, FALSE, 1, None) :
               px \in [Coords(w, h) -> PixelsOf(m)]} :
           m \in modes, w \in 1 .. MaxW, h \in 1 .. MaxH}

InitCrop ==
    InitPure([fn : {"autocrop_auto", "autocrop_white"}, im : PixelImages(Modes)])

AutocropAuto ==
    /\ call.fn = "autocrop_auto"
    /\ ret = NoCall
    /\ ret' = autocrop_auto(call.im)
    /\ UNCHANGED <<pipeVars, call>>

AutocropWhite ==
    /\ call.fn = "autocrop_white"
    /\ ret = NoCall
    /\ ret' = autocrop_white(call.im, "W")
    /\ UNCHANGED <<pipeVars, call>>

NextCrop ==
    \/ AutocropAuto
    \/ AutocropWhite

SpecCrop == InitCrop /\ [][NextCrop]_vars

\* ================================================================ claims
Ended == pc \in {"returned", "raised"}

Opened == env # NoEnv

\* C1: when the call returns or raises, no temporary raster file created by
\* a rasterizer during the call is left on disk, whatever the rasterizer and
\* the later steps did and whatever the skip flags are.
C1_NoResidualTempFiles == Ended => tempfiles = {}

\* C2 (as stated): for the documented failure conditions the call returns an
\* error record and does not raise, for every combination of the skip flags.
DocumentedFailures ==
    {UnknownSizeKey, FileNotFound, Unsupported, RawDecodeFailed, GsNotFound,
     GsFailed, SvgFailed}

C2_NeverRaisesDocumented ==
    pc = "raised" => raised \notin DocumentedFailures

IsErrorRecord(r) == DOMAIN r = {"error", "src_path"}

IsSuccessRecord(r) == "target_px" \in DOMAIN r

KnownKey == StrUpper(args.size_key) \in DOMAIN Catalog(args.sizes_mm)

GsFails == env.exists /\ args.src_ext \in PS_PDF_EXTS /\ env.gs # "ok"

SvgFails ==
    /\ env.exists
    /\ args.src_ext \in VECTOR_EXTS
    /\ env.native = "fail"
    /\ env.cairo = "fail"
    /\ env.inkscape # "ok"

\* C2 (amended): a call ends with exactly one of a success record, an error
\* record or an exception.  It returns an error record exactly when
\* page-description rasterization fails with skip_gs_files set or vector
\* rasterization fails with skip_svg_files set; an unknown size key, a
\* missing source file, an unsupported format, a RAW decode failure and a
\* rasterization failure with its skip flag unset make it raise, with no
\* record.
C2_RecordOrRaise ==
    Ended =>
        /\ (pc = "returned") <=> (raised = NoExc)
        /\ (pc = "returned") <=> (result # NoRecord)
        /\ pc = "returned" => (IsErrorRecord(result) # IsSuccessRecord(result))
        /\ ~KnownKey => pc = "raised" /\ raised = UnknownSizeKey
        /\ KnownKey =>
              /\ IsErrorRecord(result) <=>
                    \/ GsFails /\ args.skip_gs_files
                    \/ SvgFails /\ args.skip_svg_files
              /\ ~env.exists => pc = "raised" /\ raised = FileNotFound
              /\ (GsFails /\ ~args.skip_gs_files) => pc = "raised"
              /\ (SvgFails /\ ~args.skip_svg_files) =>
                    pc = "raised" /\ raised = SvgFailed
              /\ (env.native = "fail" /\ env.raw = "fail") =>
                    pc = "raised" /\ raised = RawDecodeFailed
              /\ (env.native = "fail" /\ env.raw = NA /\ env.cairo = NA) =>
                    pc = "raised" /\ raised = Unsupported

C2_Witness ==
    /\ pc = "returned"
    /\ result = ErrorRecord("SVG_TOOL_REQUIRED", ".svg")
    /\ env.inkscape = "nonzero"

\* C3: for an existing .eps/.ps/.ai/.pdf source (and a known size key) when
\* the Ghostscript executable is not found, the call returns the GS_REQUIRED
\* error record and raises nothing if skip_gs_files is set, and raises and
\* returns no record if it is unset.
C3_GsMissing ==
    (Opened /\ env.exists /\ args.src_ext \in PS_PDF_EXTS /\ env.gs = "missing") =>
        IF args.skip_gs_files
        THEN /\ pc \in {"sentinel", "returned"}
             /\ raised = NoExc
             /\ pc = "returned" => result = ErrorRecord("GS_REQUIRED", args.src_ext)
        ELSE /\ pc = "raised"
             /\ raised = GsNotFound
             /\ result = NoRecord

C3_Witness ==
    /\ pc = "returned"
    /\ env.exists
    /\ env.gs = "missing"
    /\ args.src_ext = ".ai"
    /\ args.skip_gs_files
    /\ result = ErrorRecord("GS_REQUIRED", ".ai")

\* C4: for an existing source with a RAW extension whose native decode and
\* RAW decode both fail, open_image_any raises the RAW-decode failure for
\* every combination of the skip flags: no sentinel, no error record.
C4_RawAlwaysRaises ==
    (Opened /\ env.exists /\ args.src_ext \in RAW_EXTS
        /\ env.native = "fail" /\ env.raw = "fail") =>
        /\ pc = "raised"
        /\ raised = RawDecodeFailed
        /\ decoded = NoImage
        /\ result = NoRecord

C4_Witness ==
    /\ pc = "raised"
    /\ raised = RawDecodeFailed
    /\ args.src_ext = ".nef"
    /\ args.skip_gs_files
    /\ args.skip_svg_files

\* C7: when the output path does not end in .png, the canvas passed to save
\* is in an opaque colour mode (no alpha band, no transparency), for every
\* placement mode, input colour mode and autocrop / flatten_alpha setting.
C7_OpaqueUnlessPng ==
    (saved # NoCanvas /\ ~IsPng(args.out_path)) =>
        (saved.mode \notin {"RGBA", "LA"} /\ ~saved.trns)

\* C9: open_image_any returns the sentinel only for a page-description
\* source with skip_gs_files set or a vector source with skip_svg_files set;
\* the error records are GS_REQUIRED and SVG_TOOL_REQUIRED only, never
\* UNREADABLE; a file of another extension that no decoder reads makes the
\* call raise.
C9_SentinelOnlyWhenSkipped ==
    /\ (pc = "sentinel" \/ (pc = "returned" /\ IsErrorRecord(result))) =>
          \/ args.src_ext \in PS_PDF_EXTS /\ args.skip_gs_files
          \/ args.src_ext \in VECTOR_EXTS /\ args.skip_svg_files
    /\ (pc = "returned" /\ IsErrorRecord(result)) =>
          result.error \in {"GS_REQUIRED", "SVG_TOOL_REQUIRED"}
    /\ (Opened /\ env.exists /\ Decoder(env) = "none"
          /\ args.src_ext \notin PS_PDF_EXTS \cup VECTOR_EXTS) =>
          (pc = "raised" /\ result = NoRecord)

C9_Witness ==
    /\ pc = "raised"
    /\ Opened
    /\ env.exists
    /\ env.native = "fail"
    /\ args.src_ext = ".xyz"
    /\ args.skip_gs_files
    /\ args.skip_svg_files
    /\ raised = Unsupported

\* C10: with flatten_alpha set, has_alpha is false after the flatten step
\* and the canvas composed and saved is opaque RGB, for every placement
\* mode, input colour mode and output extension.
C10_FlattenGivesOpaqueRgb ==
    (args # NoArgs /\ args.flatten_alpha) =>
        /\ pc \in {"composite", "save"} => (im.mode = "RGB" /\ ~HasAlpha(im))
        /\ out # NoCanvas => (out.mode = "RGB" /\ ~out.trns)
        /\ saved # NoCanvas => (saved.mode = "RGB" /\ ~saved.trns)

C10_Witness ==
    /\ saved # NoCanvas
    /\ args.flatten_alpha
    /\ args.mode = "fit"
    /\ IsPng(args.out_path)
    /\ decoded.mode = "RGBA"
    /\ decoded.px[<<0, 0>>] = "T"
    /\ saved.mode = "RGB"

\* C5: for every key of every catalog and every positive integer dpi,
\* paper_size_px returns two values > 0, each the integer nearest to
\* mm / 25.4 * dpi of its catalog dimension, and the result for 'horizontal',
\* 'landscape' or 'h' is the vertical result with the two values swapped.
Nearest(px, mm, dpi) ==
    /\ 254 * px - 10 * mm * dpi <= 127
    /\ 10 * mm * dpi - 254 * px <= 127

C5_PaperSize ==
    (ret # NoCall /\ call.fn = "paper_size_px"
        /\ StrUpper(call.size_key) \in DOMAIN Catalog(call.sizes_mm)) =>
        LET mm == Catalog(call.sizes_mm)[StrUpper(call.size_key)]
            horizontal == call.landscape \in {"horizontal", "landscape", "h"}
        IN  /\ ret.exc = NoExc
            /\ ret.px[1] > 0
            /\ ret.px[2] > 0
            /\ call.landscape = "vertical" =>
                  /\ Nearest(ret.px[1], mm[1], call.dpi)
                  /\ Nearest(ret.px[2], mm[2], call.dpi)
            /\ horizontal =>
                  /\ Nearest(ret.px[1], mm[2], call.dpi)
                  /\ Nearest(ret.px[2], mm[1], call.dpi)
                  /\ [px |-> <<ret.px[2], ret.px[1]>>, exc |-> NoExc] \in
                        paper_size_px(call.size_key, call.dpi, "vertical",
                                      Catalog(call.sizes_mm))

C5_Witness ==
    /\ call.fn = "paper_size_px"
    /\ call.size_key = "A4"
    /\ call.sizes_mm = "A_SIZES_MM"
    /\ call.dpi = DefaultDpi
    /\ call.landscape = "landscape"
    /\ ret = [px |-> <<3508, 2480>>, exc |-> NoExc]

NoCrop ==
    /\ ret.w = call.target_w
    /\ ret.h = call.target_h
    /\ ret.content[1] <= call.target_w
    /\ ret.content[2] <= call.target_h
    /\ ret.offset[1] >= 0
    /\ ret.offset[2] >= 0

\* C6 (as stated): in fit mode the canvas is exactly the target, the scaled
\* content is never cropped, and the larger of the scaled content's two
\* dimensions equals the target dimension on the same axis.
C6_LargerDimensionFills ==
    (ret # NoCall /\ call.fn = "fit") =>
        /\ NoCrop
        /\ ret.content[1] > ret.content[2] => ret.content[1] = call.target_w
        /\ ret.content[2] > ret.content[1] => ret.content[2] = call.target_h
        /\ ret.content[1] = ret.content[2] =>
              (ret.content[1] = call.target_w \/ ret.content[2] = call.target_h)

\* C6 (amended): in fit mode the canvas is exactly the target, the scaled
\* content is never cropped (it fits, with offsets >= 0), and the scaled
\* content equals the target on the binding axis, the one whose
\* target / image ratio is the smaller; on the other axis it is <= target.
C6_BindingAxisFills ==
    (ret # NoCall /\ call.fn = "fit") =>
        /\ NoCrop
        /\ call.target_w * call.img_h <= call.target_h * call.img_w =>
              ret.content[1] = call.target_w
        /\ call.target_h * call.img_w <= call.target_w * call.img_h =>
              ret.content[2] = call.target_h

C6_Witness ==
    /\ call.fn = "fit"
    /\ ret # NoCall
    /\ call.img_w = 1
    /\ call.img_h = 2
    /\ call.target_w = 1
    /\ call.target_h = MaxDim
    /\ ret.content = <<1, 2>>
    /\ ret.offset[1] = 0

\* C8: autocrop_auto crops an image that carries alpha or transparency to
\* the bounding box of its not fully transparent pixels, and an image
\* without alpha to the bounding box of the pixels that are not white, so a
\* white border around non-white content is removed.
SameExtent(r, i, bbox) ==
    /\ r.w = bbox[3] - bbox[1]
    /\ r.h = bbox[4] - bbox[2]
    /\ \A c \in DOMAIN r.px :
          (r.px[c] = "W") <=> (i.px[<<c[1] + bbox[1], c[2] + bbox[2]>>] = "W")

C8_AutocropRemovesBorder ==
    (ret # NoCall /\ call.fn = "autocrop_auto") =>
        LET i == call.im
            visible == {c \in DOMAIN i.px : i.px[c] # "T"}
            nonwhite == {c \in DOMAIN i.px : i.px[c] # "W"}
        IN  /\ (i.mode \in AlphaModes /\ visible # {}) =>
                  SameExtent(ret, i, BBoxOf(visible))
            /\ (i.mode \notin AlphaModes /\ nonwhite # {}) =>
                  SameExtent(ret, i, BBoxOf(nonwhite))

====
